---- MODULE Spec2Model ----
(***************************************************************************)
(* The playback engine of camper (src/src/player.rs): the Player component *)
(* with its play queue, the playbin pipeline it commands, the position     *)
(* clock, the waveform progress marker, the volume slider, the album-art    *)
(* fetches and the MPRIS session.                                          *)
(*                                                                         *)
(* f64 values are modelled as exact rationals [n, d] in lowest terms.      *)
(* Option<T> is modelled as a sequence: << >> is None, <<x>> is Some(x).   *)
(***************************************************************************)
EXTENDS Integers, Sequences, FiniteSets, TLC

VARIABLES
  queue,              \* Player.queue: Vec<Track>
  queue_index,        \* Player.queue_index: usize (0-based)
  current_track,      \* Player.current_track: Option<Track>
  playing,            \* Player.playing: bool
  position,           \* Player.position: f64 (seconds)
  duration,           \* Player.duration: f64 (seconds)
  volume,             \* Player.volume: f64
  waveform_progress,  \* Player.waveform_progress: Rc<Cell<f64>>
  waveform_dragging,  \* Player.waveform_dragging: Rc<Cell<bool>>
  scale_value,        \* value of the volume_scale widget, range (0.0, 1.0)
  p_state,            \* target state of the playbin pipeline: Null, Playing, Paused
  p_uri,              \* "uri" property of the pipeline: Option<String>
  p_volume,           \* "volume" property last handed to the pipeline
  art_pixbuf,         \* Player.art_pixbuf: Option<Pixbuf>, as the image it shows
  waveform_bars,      \* Player.waveform_bars: Rc<RefCell<Vec<f64>>>
  fetches,            \* art fetches in flight (oneshot commands), per URL
  mpris,              \* the MPRIS session: building, live or failed
  remote,             \* what the live MPRIS session publishes on the bus
  pushes,             \* futures spawned by sync_mpris* and not yet polled
  diag,               \* whether the latest event printed a diagnostic
  wf_call,            \* the latest call of generate_waveform: seed and result
  inbox,              \* PlayerMsg values sent by callbacks and not yet processed
  stale,              \* how many of the oldest queued messages were sent before
                      \* the pipeline's current source was set
  last,               \* the latest event: its message and the state it found
  cmds,               \* pipeline commands issued by the latest event
  out,                \* PlayerOutput values emitted by the latest event
  scen,               \* how far the run has followed the two-track scenario
  observe,            \* which history the run keeps besides `last`: "-" for
                      \* none, "toggles" for After's Toggle values, "sources"
                      \* for `stale`, "bars" for `waveform_bars`
  current_album,      \* App.current_album: Option<AlbumDetails>
  album_loads,        \* get_album_details commands in flight (oneshot
                      \* commands of the App), oldest request first; `latest`
                      \* marks the one of the most recent request
  requested           \* the most recent PlayAlbum request with a URL, and
                      \* what became of its fetch

engine == <<queue, queue_index, current_track, playing, position, duration,
            volume, waveform_progress, waveform_dragging, scale_value,
            p_state, p_uri, p_volume>>
\* What only play_current, SetArt and the sync_mpris* calls touch.
side == <<art_pixbuf, fetches, pushes, waveform_bars>>
\* What only the App's PlayAlbum and AlbumLoaded arms touch.
host == <<current_album, album_loads, requested>>
vars == <<queue, queue_index, current_track, playing, position, duration,
          volume, waveform_progress, waveform_dragging, scale_value,
          p_state, p_uri, p_volume, art_pixbuf, waveform_bars, fetches, mpris,
          remote,
          pushes, diag, wf_call, inbox, stale, last, cmds, out, scen,
          observe, current_album, album_loads, requested>>

---------------------------------------------------------------------------
\* Bounds of the model.
MaxInbox == 2
MaxIdx == 2
MaxPushes == 1
MaxFetches == 2
MaxSeedLen == 4
MaxLoads == 2

---------------------------------------------------------------------------
\* Exact rational arithmetic standing for f64.
RECURSIVE GCD(_, _)
GCD(a, b) == IF b = 0 THEN a ELSE GCD(b, a % b)

Abs(x) == IF x < 0 THEN -x ELSE x

Rat(n, d) ==
  LET g == GCD(Abs(n), d)
  IN  [n |-> n \div g, d |-> d \div g]

R(k) == [n |-> k, d |-> 1]

RMul(a, b) == Rat(a.n * b.n, a.d * b.d)
RSub(a, b) == Rat(a.n * b.d - b.n * a.d, a.d * b.d)
RDiv(a, b) == IF b.n > 0 THEN Rat(a.n * b.d, a.d * b.n) ELSE Rat(-(a.n * b.d), a.d * (-b.n))
RAbs(a) == [n |-> Abs(a.n), d |-> a.d]
RLt(a, b) == a.n * b.d < b.n * a.d
RLeq(a, b) == a.n * b.d <= b.n * a.d

\* f64::clamp(lo, hi)
Clamp(x, lo, hi) == IF RLt(x, lo) THEN lo ELSE IF RLt(hi, x) THEN hi ELSE x

InUnit(x) == RLeq(R(0), x) /\ RLeq(x, R(1))

None == << >>
Some(x) == <<x>>
IsSome(o) == o # << >>
Unwrap(o) == o[1]
UnwrapOr(o, dflt) == IF o = << >> THEN dflt ELSE o[1]

---------------------------------------------------------------------------
\* gst::ClockTime: a count of nanoseconds, kept as whole seconds and the
\* nanoseconds within the second (a 64-bit count does not fit TLC's
\* integers).
NanosPerSecond == 1000000000

ClockTime(s, ns) == [secs |-> s, nanos |-> ns]

\* ClockTime::seconds(): the whole seconds, truncating.
Seconds(ct) == ct.secs

\* `(x * 1_000_000_000.0) as u64` followed by ClockTime::from_nseconds: the
\* cast truncates toward zero and saturates at 0 for a negative x.  Exact
\* for the denominators of the model, which all divide NanosPerSecond.
NsFromSeconds(x) ==
  IF x.n < 0 THEN ClockTime(0, 0)
  ELSE ClockTime(x.n \div x.d, (x.n % x.d) * (NanosPerSecond \div x.d))

---------------------------------------------------------------------------
\* Tracks and the queues handed to the player.
Track(t, ar, al, url, dur) ==
  [title |-> t, artist |-> ar, album |-> al, art_url |-> None,
   stream_url |-> url, duration |-> dur]

TrackA == Track("A", "x", "al", "urlA", Some(R(120)))
TrackB == Track("B", "x", "al", "urlB", Some(R(90)))
TrackC == Track("C", "y", "al2", "urlC", None)

QueueAB == <<TrackA, TrackB>>
Queues == { << >>, <<TrackC>>, QueueAB }

\* Tracks that carry cover art, each from a release of its own.
WithArt(track, url) == [track EXCEPT !.art_url = Some(url)]
TrackD == WithArt(Track("D", "z", "al3", "urlD", Some(R(60))), "artD")
TrackE == WithArt(Track("E", "w", "al4", "urlE", None), "artE")
ArtUrls == { "artD", "artE" }
ArtQueues == { <<TrackD>>, <<TrackE>>, <<TrackD, TrackE>> }

\* bandcamp::TrackInfo, as get_album_details builds it: stream_url is the
\* "mp3-128" string of the track's "streaming_url" when the response has
\* one, whatever the string.
TrackInfo(track, stream_url) == [track EXCEPT !.stream_url = stream_url]

\* The releases a page can ask the App to play, and the tracks of the
\* AlbumDetails the client answers for each: two streamable tracks; one
\* streamable track; a track without a stream and a streamable one; a track
\* without a stream; a track whose stream URL is the empty string.
AlbumTracks ==
  [albAB |-> << TrackInfo(TrackA, Some("urlA")), TrackInfo(TrackB, Some("urlB")) >>,
   albC |-> << TrackInfo(TrackC, Some("urlC")) >>,
   albBA |-> << TrackInfo(TrackB, None), TrackInfo(TrackA, Some("urlA")) >>,
   albNone |-> << TrackInfo(TrackA, None) >>,
   albBlank |-> << TrackInfo(TrackC, Some("")) >>]

AlbumUrls == DOMAIN AlbumTracks

AlbumDetails(url) == [url |-> url, tracks |-> AlbumTracks[url]]

\* What reqwest::get(url) can hand to update_cmd: the bytes of the image at
\* the URL, bytes that are no image, or the empty Vec of a failed request.
FetchResults == { "image", "garbage", "failed" }

\* PlayerMsg::PlayQueue(_, idx) and PlayerMsg::JumpToTrack(idx) carry a usize.
Indices == 0..MaxIdx

\* PlayerMsg::Seek(f64) and PlayerMsg::SetVolume(f64) carry any f64.
Fractions == { Rat(-1, 2), R(0), Rat(1, 2), R(1), Rat(3, 2) }
Volumes == { Rat(-1, 5), R(0), Rat(1, 2), R(1), Rat(17, 10) }

\* What the pipeline answers to query_position / query_duration.
QueryPositions == { None, Some(ClockTime(30, 0)), Some(ClockTime(120, 500000000)) }
QueryDurations == { None, Some(ClockTime(90, 0)), Some(ClockTime(120, 0)) }

\* Pointer positions of a drag on the waveform area, as x / width.
PointerFractions == { Rat(1, 4), Rat(3, 2) }
SliderValues == { R(0), Rat(1, 2), R(1) }

---------------------------------------------------------------------------
\* generate_waveform.  A u64 is kept as its eight bytes, least significant
\* first (a 64-bit value does not fit TLC's integers).
WAVEFORM_BARS == 120

\* The bytes of the columns cols of a sum, carries propagated, cut to 64 bits.
RECURSIVE Carry(_, _, _)
Carry(cols, k, c) ==
  IF k > 8 THEN << >>
  ELSE LET t == cols[k] + c
       IN  << t % 256 >> \o Carry(cols, k + 1, t \div 256)

RECURSIVE ColSum(_, _, _, _)
ColSum(a, b, k, i) ==
  IF i > k THEN 0 ELSE a[i] * b[k + 1 - i] + ColSum(a, b, k, i + 1)

\* u64::wrapping_mul and u64::wrapping_add
WrappingMul(a, b) == Carry([k \in 1..8 |-> ColSum(a, b, k, 1)], 1, 0)
WrappingAdd(a, b) == Carry([k \in 1..8 |-> a[k] + b[k]], 1, 0)

\* `b as u64` of a byte b
U64FromU8(b) == << b, 0, 0, 0, 0, 0, 0, 0 >>

\* 5381, 6364136223846793005 (0x5851F42D4C957F2D) and
\* 1442695040888963407 (0x14057B7EF767814F)
HashInit == << 5, 21, 0, 0, 0, 0, 0, 0 >>
LcgMul == << 45, 127, 149, 76, 45, 244, 81, 88 >>
LcgAdd == << 79, 129, 103, 247, 126, 123, 5, 20 >>

\* u32::MAX, as a u64
U32Max == << 255, 255, 255, 255, 0, 0, 0, 0 >>

\* h >> 31, the shift the generator would make were it off by two bits.
Shr31(h) ==
  [k \in 1..8 |->
     IF k <= 5
     THEN (h[k + 3] \div 128) + (IF k + 4 <= 8 THEN (h[k + 4] % 128) * 2 ELSE 0)
     ELSE 0]

\* h >> 33
Shr33(h) ==
  [k \in 1..8 |->
     IF k <= 4
     THEN (h[k + 4] \div 2) + (IF k + 5 <= 8 THEN (h[k + 5] % 2) * 128 ELSE 0)
     ELSE 0]

\* a <= b for two u64
RECURSIVE LeqFrom(_, _, _)
LeqFrom(a, b, k) ==
  IF k = 0 THEN TRUE
  ELSE IF a[k] # b[k] THEN a[k] < b[k]
  ELSE LeqFrom(a, b, k - 1)

Leq64(a, b) == LeqFrom(a, b, 8)

\* str::bytes(): the UTF-8 encoding of the seed's characters.
Utf8(c) ==
  CASE c = "-" -> << 45 >>
    [] c = "A" -> << 65 >>
    [] c = "B" -> << 66 >>
    [] c = "C" -> << 67 >>
    [] c = "D" -> << 68 >>
    [] c = "E" -> << 69 >>
    [] c = "w" -> << 119 >>
    [] c = "x" -> << 120 >>
    [] c = "y" -> << 121 >>
    [] c = "z" -> << 122 >>
    [] c = "e'" -> << 195, 169 >>

RECURSIVE StrBytes(_)
StrBytes(seed) ==
  IF seed = << >> THEN << >> ELSE Utf8(Head(seed)) \o StrBytes(Tail(seed))

\* The byte hash: h = h.wrapping_mul(33).wrapping_add(b as u64) over the bytes.
RECURSIVE SeedHash(_, _)
SeedHash(h, bytes) ==
  IF bytes = << >> THEN h
  ELSE SeedHash(WrappingAdd(WrappingMul(h, U64FromU8(33)), U64FromU8(Head(bytes))),
                Tail(bytes))

\* One step of the generator's state.
Lcg(h) == WrappingAdd(WrappingMul(h, LcgMul), LcgAdd)

\* 0.2 + 0.8 * v with v = ((h >> 33) as f64) / (u32::MAX as f64): the exact
\* rational (u32::MAX + 4 * (h >> 33)) / (5 * u32::MAX), numerator and
\* denominator as u64 (both are below 2^36: nothing wraps).
Bar(h) ==
  [num |-> WrappingAdd(U32Max, WrappingMul(U64FromU8(4), Shr33(h))),
   den |-> WrappingMul(U64FromU8(5), U32Max)]

\* 1/5 <= bar <= 1
BarInRange(bar) ==
  /\ Leq64(bar.den, WrappingMul(U64FromU8(5), bar.num))
  /\ Leq64(bar.num, bar.den)

\* The states the generator goes through in n steps after the states hs.
RECURSIVE LcgStates(_, _)
LcgStates(hs, n) ==
  IF Len(hs) = 0 \/ n <= 0 THEN hs
  ELSE LcgStates(Append(hs, Lcg(hs[Len(hs)])), n - 1)

\* (0..n).map(|_| { h = ...; 0.2 + 0.8 * v }).collect(), h being h0 before.
BarsFrom(h0, n) ==
  LET hs == LcgStates(<< h0 >>, n)
  IN  [k \in 1..(Len(hs) - 1) |-> Bar(hs[k + 1])]

\* generate_waveform as it would be if it made one bar for each byte of
\* the seed.
generate_waveform_perByte(seed) ==
  BarsFrom(SeedHash(HashInit, StrBytes(seed)), Len(StrBytes(seed)))

generate_waveform(seed) ==
  BarsFrom(SeedHash(HashInit, StrBytes(seed)), WAVEFORM_BARS)

\* The seeds generate_waveform is called on: strings of the characters
\* "-", "A" and e-acute, the empty string among them.
SeedChars == { "-", "A", "e'" }
Seeds == UNION { [1..n -> SeedChars] : n \in 0..MaxSeedLen }

---------------------------------------------------------------------------
\* Pipeline commands and component outputs.
SetState(st) == [cmd |-> "set_state", state |-> st]
SetUri(u) == [cmd |-> "set_uri", uri |-> u]
SetVolumeProp(v) == [cmd |-> "set_volume", v |-> v]
SeekSimple(ct) == [cmd |-> "seek_simple", to |-> ct]

NowPlaying == [out |-> "NowPlaying"]
VolumeChanged(v) == [out |-> "VolumeChanged", v |-> v]

\* The engine's playback state: Playing while `playing` is set; otherwise
\* Paused when the pipeline was last put in the Paused state (Toggle) and
\* Stopped when it is in the Null state (initially, Stop, end of queue).
PlaybackState ==
  IF playing THEN "Playing"
  ELSE IF p_state = "Paused" THEN "Paused"
  ELSE "Stopped"

\* The messages of update_with_view, as opposed to the other events.
MsgKinds == { "PlayQueue", "Toggle", "Stop", "Next", "Prev", "Seek", "SetVolume",
              "Tick", "EOS", "SetArt", "JumpToTrack" }

\* Next or Prev when the latest message processed was one that loaded a
\* track, TogglePlaying or TogglePaused when it was a Toggle that found the
\* engine Playing or Paused (kept when the run observes toggles), "-"
\* otherwise.
After ==
  IF last.msg.kind \in { "Next", "Prev" } /\ cmds # << >> THEN last.msg.kind
  ELSE IF observe = "toggles" /\ last.msg.kind = "Toggle"
            /\ last.was.state \in { "Playing", "Paused" }
  THEN IF last.was.state = "Playing" THEN "TogglePlaying" ELSE "TogglePaused"
  ELSE IF last.msg.kind \in MsgKinds \cup { "Init" } THEN "-"
  ELSE last.was.after

\* What an event records of the state it found.
Was == [state |-> PlaybackState, index |-> queue_index, after |-> After]

\* `(x * 1_000_000.0) as i64`: the cast truncates toward zero.
Micros(x) ==
  IF x.n >= 0 THEN (x.n * 1000000) \div x.d ELSE -(((-x.n) * 1000000) \div x.d)

\* The Metadata sync_mpris builds from the current track.
Metadata(t) ==
  [title |-> t.title, artist |-> t.artist, album |-> t.album,
   art_url |-> t.art_url,
   length |-> IF IsSome(t.duration) THEN Some(Micros(Unwrap(t.duration))) ELSE None]

\* The future sync_mpris spawns when `playing` is pl and `current_track` is
\* ct: the status and the metadata are computed at the call and moved into it.
\* `at` records what the session was at the call.
StatusPush(pl, ct) ==
  [push |-> "status", at |-> mpris,
   status |-> IF pl THEN "Playing" ELSE IF IsSome(ct) THEN "Paused" ELSE "Stopped",
   meta |-> IF IsSome(ct) THEN Some(Metadata(Unwrap(ct))) ELSE None]

\* The future sync_mpris_position spawns when `position` is pos.
PositionPush(pos) == [push |-> "position", at |-> mpris, micros |-> Micros(pos)]

\* Number of art fetches in flight.
InFlight(f) == f["artD"] + f["artE"]

\* format!("{}-{}", track.title, track.artist) as the seed's characters; the
\* titles and artists of the model's tracks are one character each.
TrackSeed_titleOnly(track) == << track.title >>

TrackSeed(track) == << track.title, "-", track.artist >>

\* The tracks of the model, and the bars play_current generates for each:
\* generate_waveform is a function of the seed alone, so each is computed
\* once.
ModelTracks == { TrackA, TrackB, TrackC, TrackD, TrackE }

Generated == [t \in ModelTracks |-> generate_waveform(TrackSeed(t))]

---------------------------------------------------------------------------
Constructed ==
  /\ queue = << >>
  /\ queue_index = 0
  /\ current_track = None
  /\ playing = FALSE
  /\ position = R(0)
  /\ duration = R(0)
  /\ volume = R(1)
  /\ waveform_progress = R(0)
  /\ waveform_dragging = FALSE
  /\ scale_value = R(1)
  /\ p_state = "Null"
  /\ p_uri = None
  /\ p_volume = R(1)
  /\ art_pixbuf = None
  /\ waveform_bars = << >>
  /\ fetches = [u \in ArtUrls |-> 0]
  /\ mpris = "building"
  /\ remote = [status |-> "Stopped", metadata |-> None, position |-> 0]
  /\ pushes = << >>
  /\ diag = FALSE
  /\ wf_call = None
  /\ inbox = << >>
  /\ stale = 0
  /\ last = [msg |-> [kind |-> "Init"], was |-> [state |-> "Stopped", index |-> 0, after |-> "-"]]
  /\ cmds = << >>
  /\ out = << >>
  /\ scen = 0
  /\ current_album = None
  /\ album_loads = << >>
  /\ requested = None

\* The player after init, in a run that keeps no more history than `last`.
Init == Constructed /\ observe = "-"

\* The same player, in a run that remembers what the latest Toggle found.
InitToggles == Constructed /\ observe = "toggles"

\* The same player, in a run that counts the queued messages older than the
\* pipeline's source.
InitSources == Constructed /\ observe = "sources"

\* The same player, in a run that keeps the bars play_current generates.
InitBars == Constructed /\ observe = "bars"

---------------------------------------------------------------------------
\* Player::play_current, reading the queue q and index i the caller has set.
PlayCurrent(q, i) ==
  IF i < Len(q)
  THEN LET track == q[i + 1]
       IN  /\ cmds' = << SetState("Null"), SetUri(track.stream_url),
                         SetVolumeProp(volume), SetState("Playing") >>
           /\ p_state' = "Playing"
           /\ p_uri' = Some(track.stream_url)
           /\ p_volume' = volume
           /\ playing' = TRUE
           /\ position' = R(0)
           /\ duration' = UnwrapOr(track.duration, R(0))
           /\ current_track' = Some(track)
           /\ waveform_progress' = R(0)
           /\ art_pixbuf' = None
           /\ waveform_bars' = IF observe = "bars" THEN Generated[track]
                                ELSE waveform_bars
           /\ fetches' = IF IsSome(track.art_url)
                          THEN [fetches EXCEPT ![Unwrap(track.art_url)] = @ + 1]
                          ELSE fetches
           /\ pushes' = Append(pushes, StatusPush(TRUE, Some(track)))
           /\ out' = << NowPlaying >>
  ELSE /\ cmds' = << >>
       /\ out' = << >>
       /\ UNCHANGED <<p_state, p_uri, p_volume, playing, position, duration,
                      current_track, waveform_progress, art_pixbuf, fetches,
                      pushes, waveform_bars>>

\* A handler arm that does nothing.
Nothing ==
  /\ cmds' = << >>
  /\ out' = << >>
  /\ UNCHANGED <<engine, side>>

\* PlayQueue as it would be if it always started at the first track.
PlayQueue_ignoresIdx(tracks, idx) ==
  /\ queue' = tracks
  /\ queue_index' = 0
  /\ PlayCurrent(tracks, 0)
  /\ UNCHANGED <<volume, waveform_dragging, scale_value>>

\* PlayerMsg::PlayQueue(tracks, idx)
PlayQueue(tracks, idx) ==
  /\ queue' = tracks
  /\ queue_index' = idx
  /\ PlayCurrent(tracks, idx)
  /\ UNCHANGED <<volume, waveform_dragging, scale_value>>

\* Toggle as it would be if resuming reloaded the source.
Toggle_reloads ==
  /\ IF playing
     THEN /\ cmds' = << SetState("Paused") >>
          /\ p_state' = "Paused"
          /\ playing' = FALSE
     ELSE IF IsSome(current_track)
     THEN /\ cmds' = << SetState("Null"), SetUri(Unwrap(current_track).stream_url),
                        SetState("Playing") >>
          /\ p_state' = "Playing"
          /\ playing' = TRUE
     ELSE /\ cmds' = << >>
          /\ UNCHANGED <<p_state, playing>>
  /\ pushes' = Append(pushes, StatusPush(playing', current_track))
  /\ out' = << >>
  /\ UNCHANGED <<queue, queue_index, current_track, position, duration, volume,
                 waveform_progress, waveform_dragging, scale_value, p_uri,
                 p_volume, art_pixbuf, fetches, waveform_bars>>

\* Toggle as it would be if it only ever paused.
Toggle_pauseOnly ==
  /\ IF playing
     THEN /\ cmds' = << SetState("Paused") >>
          /\ p_state' = "Paused"
          /\ playing' = FALSE
     ELSE /\ cmds' = << >>
          /\ UNCHANGED <<p_state, playing>>
  /\ pushes' = Append(pushes, StatusPush(playing', current_track))
  /\ out' = << >>
  /\ UNCHANGED <<queue, queue_index, current_track, position, duration, volume,
                 waveform_progress, waveform_dragging, scale_value, p_uri,
                 p_volume, art_pixbuf, fetches, waveform_bars>>

\* PlayerMsg::Toggle
Toggle ==
  /\ IF playing
     THEN /\ cmds' = << SetState("Paused") >>
          /\ p_state' = "Paused"
          /\ playing' = FALSE
     ELSE IF IsSome(current_track)
     THEN /\ cmds' = << SetState("Playing") >>
          /\ p_state' = "Playing"
          /\ playing' = TRUE
     ELSE /\ cmds' = << >>
          /\ UNCHANGED <<p_state, playing>>
  /\ pushes' = Append(pushes, StatusPush(playing', current_track))
  /\ out' = << >>
  /\ UNCHANGED <<queue, queue_index, current_track, position, duration, volume,
                 waveform_progress, waveform_dragging, scale_value, p_uri,
                 p_volume, art_pixbuf, fetches, waveform_bars>>

\* Stop as it would be if it also forgot the current track.
Stop_clearsTrack ==
  /\ cmds' = << SetState("Null") >>
  /\ p_state' = "Null"
  /\ playing' = FALSE
  /\ position' = R(0)
  /\ current_track' = None
  /\ pushes' = Append(pushes, StatusPush(FALSE, None))
  /\ out' = << >>
  /\ UNCHANGED <<queue, queue_index, duration, volume, waveform_progress,
                 waveform_dragging, scale_value, p_uri, p_volume, art_pixbuf,
                 fetches, waveform_bars>>

\* PlayerMsg::Stop
Stop ==
  /\ cmds' = << SetState("Null") >>
  /\ p_state' = "Null"
  /\ playing' = FALSE
  /\ position' = R(0)
  /\ pushes' = Append(pushes, StatusPush(FALSE, current_track))
  /\ out' = << >>
  /\ UNCHANGED <<queue, queue_index, current_track, duration, volume,
                 waveform_progress, waveform_dragging, scale_value, p_uri,
                 p_volume, art_pixbuf, fetches, waveform_bars>>

\* The index is moved and the track at it is played.
MoveTo(i) ==
  /\ queue_index' = i
  /\ PlayCurrent(queue, i)
  /\ UNCHANGED <<queue, volume, waveform_dragging, scale_value>>

\* Next as it would be if it wrapped around at the end of the queue.
MsgNext_wraps ==
  IF queue_index + 1 < Len(queue) THEN MoveTo(queue_index + 1)
  ELSE IF Len(queue) > 0 THEN MoveTo(0)
  ELSE Nothing

\* PlayerMsg::Next
MsgNext ==
  IF queue_index + 1 < Len(queue) THEN MoveTo(queue_index + 1) ELSE Nothing

\* PlayerMsg::Prev
MsgPrev ==
  IF queue_index > 0 THEN MoveTo(queue_index - 1) ELSE Nothing

\* JumpToTrack as it would be if a jump to the current index did nothing.
JumpToTrack_skipsCurrent(idx) ==
  IF idx < Len(queue) /\ idx # queue_index THEN MoveTo(idx) ELSE Nothing

\* PlayerMsg::JumpToTrack(idx)
JumpToTrack(idx) ==
  IF idx < Len(queue) THEN MoveTo(idx) ELSE Nothing

\* Seek as it would be without the test of the duration.
Seek_unguarded(frac) ==
  /\ cmds' = << SeekSimple(NsFromSeconds(RMul(frac, duration))) >>
  /\ position' = RMul(frac, duration)
  /\ waveform_progress' = frac
  /\ out' = << >>
  /\ UNCHANGED <<queue, queue_index, current_track, playing, duration,
                 volume, waveform_dragging, scale_value, p_state, p_uri,
                 p_volume, side>>

\* PlayerMsg::Seek(frac)
Seek(frac) ==
  IF RLt(R(0), duration)
  THEN /\ cmds' = << SeekSimple(NsFromSeconds(RMul(frac, duration))) >>
       /\ position' = RMul(frac, duration)
       /\ waveform_progress' = frac
       /\ out' = << >>
       /\ UNCHANGED <<queue, queue_index, current_track, playing, duration,
                      volume, waveform_dragging, scale_value, p_state, p_uri,
                      p_volume, side>>
  ELSE Nothing

\* gtk4::Scale::set_value on a scale of range (0.0, 1.0): the value is clamped
\* to the range and value-changed is emitted when the value changes.
ScaleClamp(v) == Clamp(v, R(0), R(1))

\* Whether the SetVolume handler calls volume_scale.set_value(v).
ScaleDiffers(v) == RLt(Rat(1, 1000), RAbs(RSub(scale_value, v)))

\* The value of the scale after SetVolume(v).
ScaleAfter(v) == IF ScaleDiffers(v) THEN ScaleClamp(v) ELSE scale_value

\* connect_value_changed: the messages SetVolume(v) makes the scale send.
SetVolumePosts(v) ==
  IF ScaleAfter(v) # scale_value
  THEN << [kind |-> "SetVolume", v |-> ScaleAfter(v)] >>
  ELSE << >>

\* PlayerMsg::SetVolume(v)
SetVolume(v) ==
  /\ volume' = v
  /\ p_volume' = v
  /\ cmds' = << SetVolumeProp(v) >>
  /\ scale_value' = ScaleAfter(v)
  /\ out' = << VolumeChanged(v) >>
  /\ UNCHANGED <<queue, queue_index, current_track, playing, position, duration,
                 waveform_progress, waveform_dragging, p_state, p_uri, side>>

\* Tick as it would be if a duration query without an answer reset the
\* duration.
Tick_resetsUnknown(pos, dur) ==
  IF playing
  THEN LET np == IF IsSome(pos) THEN R(Seconds(Unwrap(pos))) ELSE position
           nd == IF IsSome(dur) THEN R(Seconds(Unwrap(dur))) ELSE R(0)
       IN  /\ position' = np
           /\ duration' = nd
           /\ waveform_progress' =
                IF RLt(R(0), nd) /\ ~waveform_dragging
                THEN RDiv(np, nd)
                ELSE waveform_progress
           /\ pushes' = Append(pushes, PositionPush(np))
           /\ cmds' = << >>
           /\ out' = << >>
           /\ UNCHANGED <<queue, queue_index, current_track, playing, volume,
                          waveform_dragging, scale_value, p_state, p_uri,
                          p_volume, art_pixbuf, fetches, waveform_bars>>
  ELSE Nothing

\* Tick as it would be without the test of `playing`.
Tick_always(pos, dur) ==
  LET np == IF IsSome(pos) THEN R(Seconds(Unwrap(pos))) ELSE position
      nd == IF IsSome(dur) THEN R(Seconds(Unwrap(dur))) ELSE duration
  IN  /\ position' = np
      /\ duration' = nd
      /\ waveform_progress' =
           IF RLt(R(0), nd) /\ ~waveform_dragging
           THEN RDiv(np, nd)
           ELSE waveform_progress
      /\ pushes' = Append(pushes, PositionPush(np))
      /\ cmds' = << >>
      /\ out' = << >>
      /\ UNCHANGED <<queue, queue_index, current_track, playing, volume,
                     waveform_dragging, scale_value, p_state, p_uri,
                     p_volume, art_pixbuf, fetches, waveform_bars>>

\* PlayerMsg::Tick, with the pipeline's answers to the two queries.
Tick(pos, dur) ==
  IF playing
  THEN LET np == IF IsSome(pos) THEN R(Seconds(Unwrap(pos))) ELSE position
           nd == IF IsSome(dur) THEN R(Seconds(Unwrap(dur))) ELSE duration
       IN  /\ position' = np
           /\ duration' = nd
           /\ waveform_progress' =
                IF RLt(R(0), nd) /\ ~waveform_dragging
                THEN RDiv(np, nd)
                ELSE waveform_progress
           /\ pushes' = Append(pushes, PositionPush(np))
           /\ cmds' = << >>
           /\ out' = << >>
           /\ UNCHANGED <<queue, queue_index, current_track, playing, volume,
                          waveform_dragging, scale_value, p_state, p_uri,
                          p_volume, art_pixbuf, fetches, waveform_bars>>
  ELSE Nothing

\* EOS as it would be if it dropped the finished track from the queue.
EOS_consumes ==
  IF Len(queue) > 1 /\ queue_index = 0
  THEN /\ queue' = Tail(queue)
       /\ UNCHANGED queue_index
       /\ PlayCurrent(Tail(queue), 0)
       /\ UNCHANGED <<volume, waveform_dragging, scale_value>>
  ELSE /\ cmds' = << SetState("Null") >>
       /\ p_state' = "Null"
       /\ playing' = FALSE
       /\ position' = R(0)
       /\ pushes' = Append(pushes, StatusPush(FALSE, current_track))
       /\ out' = << >>
       /\ UNCHANGED <<queue, queue_index, current_track, duration, volume,
                      waveform_progress, waveform_dragging, scale_value, p_uri,
                      p_volume, art_pixbuf, fetches, waveform_bars>>

\* EOS as it would be if it never advanced the queue.
EOS_alwaysStops ==
  /\ cmds' = << SetState("Null") >>
  /\ p_state' = "Null"
  /\ playing' = FALSE
  /\ position' = R(0)
  /\ pushes' = Append(pushes, StatusPush(FALSE, current_track))
  /\ out' = << >>
  /\ UNCHANGED <<queue, queue_index, current_track, duration, volume,
                 waveform_progress, waveform_dragging, scale_value, p_uri,
                 p_volume, art_pixbuf, fetches, waveform_bars>>

\* EOS as it would be if the queue started over after its last track.
EOS_wraps ==
  IF queue_index + 1 < Len(queue) THEN MoveTo(queue_index + 1)
  ELSE IF Len(queue) > 0 THEN MoveTo(0)
  ELSE Nothing

\* PlayerMsg::EOS
EOS ==
  IF queue_index + 1 < Len(queue)
  THEN MoveTo(queue_index + 1)
  ELSE /\ cmds' = << SetState("Null") >>
       /\ p_state' = "Null"
       /\ playing' = FALSE
       /\ position' = R(0)
       /\ pushes' = Append(pushes, StatusPush(FALSE, current_track))
       /\ out' = << >>
       /\ UNCHANGED <<queue, queue_index, current_track, duration, volume,
                      waveform_progress, waveform_dragging, scale_value, p_uri,
                      p_volume, art_pixbuf, fetches, waveform_bars>>

\* load_pixbuf(bytes, 42): the picture the bytes decode to, if any.
LoadPixbuf(bytes) == IF bytes.res = "image" THEN Some(bytes.url) ELSE None

\* PlayerMsg::SetArt(bytes)
SetArt(bytes) ==
  /\ art_pixbuf' = IF IsSome(LoadPixbuf(bytes)) THEN LoadPixbuf(bytes) ELSE art_pixbuf
  /\ cmds' = << >>
  /\ out' = << >>
  /\ UNCHANGED <<engine, fetches, pushes, waveform_bars>>

---------------------------------------------------------------------------
\* PlayerMsg values.
MsgPlayQueue(tracks, idx) == [kind |-> "PlayQueue", tracks |-> tracks, idx |-> idx]
MsgJump(idx) == [kind |-> "JumpToTrack", idx |-> idx]
MsgSeek(frac) == [kind |-> "Seek", frac |-> frac]
MsgSetVolume(v) == [kind |-> "SetVolume", v |-> v]
MsgTick(pos, dur) == [kind |-> "Tick", pos |-> pos, dur |-> dur]
MsgSetArt(bytes) == [kind |-> "SetArt", bytes |-> bytes]
MsgOf(k) == [kind |-> k]

\* The match of Player::update_with_view.
Update(m) ==
  CASE m.kind = "PlayQueue" -> PlayQueue(m.tracks, m.idx)
    [] m.kind = "Toggle" -> Toggle
    [] m.kind = "Stop" -> Stop
    [] m.kind = "Next" -> MsgNext
    [] m.kind = "Prev" -> MsgPrev
    [] m.kind = "Seek" -> Seek(m.frac)
    [] m.kind = "SetVolume" -> SetVolume(m.v)
    [] m.kind = "Tick" -> Tick(m.pos, m.dur)
    [] m.kind = "EOS" -> EOS
    [] m.kind = "SetArt" -> SetArt(m.bytes)
    [] m.kind = "JumpToTrack" -> JumpToTrack(m.idx)

\* Messages the widgets send while m is processed.
Posts(m) == IF m.kind = "SetVolume" THEN SetVolumePosts(m.v) ELSE << >>

\* The two-track scenario: PlayQueue([A, B], 0); Tick with the pipeline at
\* 30 s; Seek(0.5); EOS; EOS.  The value is the number of its messages the
\* latest messages processed have matched.
ScenStep(s, m) ==
  IF m = MsgPlayQueue(QueueAB, 0) THEN 1
  ELSE IF s = 1 /\ m.kind = "Tick" /\ m.pos = Some(ClockTime(30, 0))
               /\ m.dur \in { None, Some(ClockTime(120, 0)) } THEN 2
  ELSE IF s = 2 /\ m = MsgSeek(Rat(1, 2)) THEN 3
  ELSE IF s = 3 /\ m.kind = "EOS" THEN 4
  ELSE IF s = 4 /\ m.kind = "EOS" THEN 5
  ELSE 0

\* Whether the latest event gave the pipeline a source (play_current past its
\* bounds check).
SourceSet(cs) == \E k \in DOMAIN cs : cs[k].cmd = "set_uri"

\* One run of update_with_view on message m; rest is what stays queued.
\* Every message still queued when a source is set was sent before it.
Handle(m, rest) ==
  /\ Len(rest \o Posts(m)) <= MaxInbox
  /\ Len(pushes) < MaxPushes
  /\ Update(m)
  /\ InFlight(fetches') <= MaxFetches
  /\ inbox' = rest \o Posts(m)
  /\ stale' = IF observe # "sources" THEN 0
              ELSE IF SourceSet(cmds') THEN Len(rest)
              ELSE IF Len(rest) < Len(inbox) /\ stale > 0 THEN stale - 1
              ELSE stale
  /\ last' = [msg |-> m, was |-> Was]
  /\ scen' = ScenStep(scen, m)
  /\ diag' = FALSE
  /\ UNCHANGED <<mpris, remote, wf_call, observe>>

\* A message of the player that is none of the App's doing.
Process(m, rest) ==
  /\ Handle(m, rest)
  /\ UNCHANGED host

\* An event that is no message of the player: it may send messages, and it
\* prints a diagnostic when said so.
Notice(name, posts, printed) ==
  /\ Len(inbox \o posts) <= MaxInbox
  /\ inbox' = inbox \o posts
  /\ stale' = stale
  /\ last' = [msg |-> MsgOf(name), was |-> Was]
  /\ cmds' = << >>
  /\ out' = << >>
  /\ diag' = printed
  /\ UNCHANGED <<scen, observe>>

\* Such an event outside the App's PlayAlbum and AlbumLoaded arms.
Event(name, posts, printed) ==
  /\ Notice(name, posts, printed)
  /\ UNCHANGED host

\* A callback of a widget or of the bus watch.
Callback(name, posts) ==
  /\ Event(name, posts, FALSE)
  /\ UNCHANGED <<side, mpris, remote, wf_call>>

---------------------------------------------------------------------------
\* Messages sent by the host, the buttons, the timer and the MPRIS session:
\* each is processed some time after it is sent, so sending and processing
\* are one step.
OnPlayQueue ==
  \E tracks \in Queues, idx \in Indices : Process(MsgPlayQueue(tracks, idx), inbox)

\* The host loads a release whose tracks carry cover art.
OnPlayArtQueue ==
  \E tracks \in ArtQueues, idx \in 0..1 : Process(MsgPlayQueue(tracks, idx), inbox)

OnToggle == Process(MsgOf("Toggle"), inbox)

OnStop == Process(MsgOf("Stop"), inbox)

OnNext == Process(MsgOf("Next"), inbox)

OnPrev == Process(MsgOf("Prev"), inbox)

OnJumpToTrack == \E idx \in Indices : Process(MsgJump(idx), inbox)

OnSeek == \E frac \in Fractions : Process(MsgSeek(frac), inbox)

OnSetVolume == \E v \in Volumes : Process(MsgSetVolume(v), inbox)

OnTick ==
  \E pos \in (IF playing THEN QueryPositions ELSE { None }),
     dur \in (IF playing THEN QueryDurations ELSE { None }) :
       Process(MsgTick(pos, dur), inbox)

\* The bus watch: the pipeline reports end-of-stream while it plays, or an
\* error while it plays or is paused, and the watch sends PlayerMsg::EOS for
\* either.  (A pipeline set to Null flushes its bus.)
BusEos ==
  /\ p_state = "Playing"
  /\ Callback("BusEos", << MsgOf("EOS") >>)
  /\ UNCHANGED engine

\* The bus watch as it would be if an error stopped the player.
BusError_stops ==
  /\ p_state \in { "Playing", "Paused" }
  /\ Event("BusError", << MsgOf("Stop") >>, TRUE)
  /\ UNCHANGED <<engine, side, mpris, remote, wf_call>>

BusError ==
  /\ p_state \in { "Playing", "Paused" }
  /\ Event("BusError", << MsgOf("EOS") >>, TRUE)
  /\ UNCHANGED <<engine, side, mpris, remote, wf_call>>

\* GestureDrag on the waveform area; x is the pointer's x / width.
DragBegin ==
  /\ ~waveform_dragging
  /\ \E x \in PointerFractions :
       /\ waveform_progress' = Clamp(x, R(0), R(1))
       /\ waveform_dragging' = TRUE
  /\ Callback("DragBegin", << >>)
  /\ UNCHANGED <<queue, queue_index, current_track, playing, position, duration,
                 volume, scale_value, p_state, p_uri, p_volume>>

DragUpdate ==
  /\ waveform_dragging
  /\ \E x \in PointerFractions : waveform_progress' = Clamp(x, R(0), R(1))
  /\ Callback("DragUpdate", << >>)
  /\ UNCHANGED <<queue, queue_index, current_track, playing, position, duration,
                 volume, waveform_dragging, scale_value, p_state, p_uri, p_volume>>

DragEnd ==
  /\ waveform_dragging
  /\ waveform_dragging' = FALSE
  /\ \E x \in PointerFractions :
       Callback("DragEnd", << MsgSeek(Clamp(x, R(0), R(1))) >>)
  /\ UNCHANGED <<queue, queue_index, current_track, playing, position, duration,
                 volume, waveform_progress, scale_value, p_state, p_uri, p_volume>>

\* The user moves the volume slider: value-changed sends SetVolume.
SlideVolume ==
  \E v \in SliderValues :
    /\ v # scale_value
    /\ scale_value' = v
    /\ Callback("SlideVolume", << MsgSetVolume(v) >>)
    /\ UNCHANGED <<queue, queue_index, current_track, playing, position, duration,
                   volume, waveform_progress, waveform_dragging, p_state, p_uri,
                   p_volume>>

\* An art fetch ends, in any order, and update_cmd runs on its bytes: it
\* sends SetArt unless they are empty.
FetchDone ==
  \E u \in ArtUrls, res \in FetchResults :
    /\ fetches[u] > 0
    /\ fetches' = [fetches EXCEPT ![u] = @ - 1]
    /\ Event("FetchDone",
             IF res = "failed" THEN << >>
             ELSE << MsgSetArt([url |-> u, res |-> res]) >>,
             FALSE)
    /\ UNCHANGED <<engine, art_pixbuf, waveform_bars, pushes, mpris, remote,
                   wf_call>>

\* The MPRIS builder future ends with a session: the callbacks are
\* connected and the session is stored in the shared cell.
SessionLive ==
  /\ mpris = "building"
  /\ mpris' = "live"
  /\ Event("SessionLive", << >>, FALSE)
  /\ UNCHANGED <<engine, side, remote, wf_call>>

\* The MPRIS builder future ends with an error: the cell stays empty.
SessionFails ==
  /\ mpris = "building"
  /\ mpris' = "failed"
  /\ Event("SessionFails", << >>, FALSE)
  /\ UNCHANGED <<engine, side, remote, wf_call>>

\* The methods of org.mpris.MediaPlayer2.Player a controller can call on the
\* live session.
RemoteCommands == { "play_pause", "next", "previous", "stop", "play", "pause",
                    "seek", "set_position" }

\* The callbacks as they would be if a seek callback were connected too.
RemotePosts_seeks(c) ==
  CASE c = "play_pause" -> << MsgOf("Toggle") >>
    [] c = "next" -> << MsgOf("Next") >>
    [] c = "previous" -> << MsgOf("Prev") >>
    [] c = "stop" -> << MsgOf("Stop") >>
    [] c \in { "seek", "set_position" } -> << MsgSeek(R(0)) >>
    [] OTHER -> << >>

\* The callbacks connected on the session: connect_play_pause, connect_next,
\* connect_previous and connect_stop each send one PlayerMsg; no other method
\* has a callback.
RemotePosts(c) ==
  CASE c = "play_pause" -> << MsgOf("Toggle") >>
    [] c = "next" -> << MsgOf("Next") >>
    [] c = "previous" -> << MsgOf("Prev") >>
    [] c = "stop" -> << MsgOf("Stop") >>
    [] OTHER -> << >>

\* A controller calls a method on the live session.
RemoteCommand ==
  /\ mpris = "live"
  /\ \E c \in RemoteCommands : Event(c, RemotePosts(c), FALSE)
  /\ UNCHANGED <<engine, side, mpris, remote, wf_call>>

\* The poll as it would be if the push reached the bus whatever the cell
\* holds.
PollPush_always ==
  /\ pushes # << >>
  /\ LET f == Head(pushes)
     IN  remote' =
           IF f.push = "status"
           THEN [remote EXCEPT !.status = f.status,
                               !.metadata = IF IsSome(f.meta) THEN f.meta ELSE @]
           ELSE [remote EXCEPT !.position = f.micros]
  /\ pushes' = Tail(pushes)
  /\ Event("PollPush", << >>, FALSE)
  /\ UNCHANGED <<engine, art_pixbuf, waveform_bars, fetches, mpris, wf_call>>

\* The main loop polls the oldest future spawned by sync_mpris or
\* sync_mpris_position: it returns at once when the cell is empty.
PollPush ==
  /\ pushes # << >>
  /\ LET f == Head(pushes)
     IN  remote' =
           IF mpris # "live" THEN remote
           ELSE IF f.push = "status"
           THEN [remote EXCEPT !.status = f.status,
                               !.metadata = IF IsSome(f.meta) THEN f.meta ELSE @]
           ELSE [remote EXCEPT !.position = f.micros]
  /\ pushes' = Tail(pushes)
  /\ Event("PollPush", << >>, FALSE)
  /\ UNCHANGED <<engine, art_pixbuf, waveform_bars, fetches, mpris, wf_call>>

\* A call of generate_waveform on any seed; the function keeps nothing from
\* one call to the next, so a run makes one call.
Generate ==
  /\ wf_call = None
  /\ \E seed \in Seeds :
       wf_call' = Some([seed |-> seed, bars |-> generate_waveform(seed)])
  /\ Event("generate_waveform", << >>, FALSE)
  /\ UNCHANGED <<engine, side, mpris, remote>>

\* The component takes the oldest queued message.
DeliverEOS ==
  /\ inbox # << >>
  /\ Head(inbox).kind = "EOS"
  /\ Process(Head(inbox), Tail(inbox))

DeliverSeek ==
  /\ inbox # << >>
  /\ Head(inbox).kind = "Seek"
  /\ Process(Head(inbox), Tail(inbox))

DeliverSetVolume ==
  /\ inbox # << >>
  /\ Head(inbox).kind = "SetVolume"
  /\ Process(Head(inbox), Tail(inbox))

DeliverSetArt ==
  /\ inbox # << >>
  /\ Head(inbox).kind = "SetArt"
  /\ Process(Head(inbox), Tail(inbox))

DeliverCommand ==
  /\ inbox # << >>
  /\ Head(inbox).kind \in { "Toggle", "Next", "Prev", "Stop" }
  /\ Process(Head(inbox), Tail(inbox))

\* The filter_map of AppMsg::AlbumLoaded: the tracks that have a
\* stream_url, each as a player Track.
Playable(infos) ==
  LET streamed == SelectSeq(infos, LAMBDA t : IsSome(t.stream_url))
  IN  [k \in DOMAIN streamed |->
         [streamed[k] EXCEPT !.stream_url = Unwrap(streamed[k].stream_url)]]

\* AppMsg::PlayAlbum(url), sent by the Discover, Search and Library pages:
\* an empty URL only shows a toast; any other starts a get_album_details
\* command, which runs beside those already in flight.
PlayAlbum ==
  \E url \in AlbumUrls \cup { "" } :
    /\ IF url = ""
       THEN UNCHANGED host
       ELSE /\ Len(album_loads) < MaxLoads
            /\ album_loads' =
                 Append([k \in DOMAIN album_loads |->
                           [album_loads[k] EXCEPT !.latest = FALSE]],
                        [url |-> url, latest |-> TRUE])
            /\ requested' = Some([url |-> url, outcome |-> "pending"])
            /\ UNCHANGED current_album
    /\ Notice("PlayAlbum", << >>, FALSE)
    /\ UNCHANGED <<engine, side, mpris, remote, wf_call>>

\* A get_album_details command ends, in any order: update_cmd sends
\* AppMsg::AlbumLoaded with its result and the App processes it.  With a
\* playable track the details become the current album and the player gets
\* PlayQueue(tracks, 0); with none, or on an error, the App shows a toast.
AlbumLoaded ==
  \E k \in DOMAIN album_loads, ok \in BOOLEAN :
    LET load == album_loads[k]
        details == AlbumDetails(load.url)
        tracks == Playable(details.tracks)
        outcome == IF ~ok THEN "failed"
                   ELSE IF tracks = << >> THEN "unplayable"
                   ELSE "loaded"
    IN  /\ album_loads' = SubSeq(album_loads, 1, k - 1)
                            \o SubSeq(album_loads, k + 1, Len(album_loads))
        /\ requested' = IF load.latest
                        THEN Some([url |-> load.url, outcome |-> outcome])
                        ELSE requested
        /\ IF outcome = "loaded"
           THEN /\ current_album' = Some(details)
                /\ Handle(MsgPlayQueue(tracks, 0), inbox)
           ELSE /\ UNCHANGED current_album
                /\ Notice("AlbumLoaded", << >>, FALSE)
                /\ UNCHANGED <<engine, side, mpris, remote, wf_call>>

Next ==
  \/ OnPlayQueue
  \/ OnToggle
  \/ OnStop
  \/ OnNext
  \/ OnPrev
  \/ OnJumpToTrack
  \/ OnSeek
  \/ OnSetVolume
  \/ OnTick
  \/ BusEos
  \/ BusError
  \/ DragBegin
  \/ DragUpdate
  \/ DragEnd
  \/ SlideVolume
  \/ DeliverEOS
  \/ DeliverSeek
  \/ DeliverSetVolume
  \/ OnPlayArtQueue
  \/ FetchDone
  \/ DeliverSetArt
  \/ SessionLive
  \/ SessionFails
  \/ PollPush
  \/ RemoteCommand
  \/ DeliverCommand
  \/ Generate
  \/ PlayAlbum
  \/ AlbumLoaded

Spec == Init /\ [][Next]_vars

\* The player is the product of its parts: playback, volume, the waveform
\* drag, the art fetches and the MPRIS session.  They meet only in
\* play_current (it hands the volume to the pipeline, drops the art and
\* starts a fetch), in Tick (it reads the drag flag) and in the sync_mpris*
\* calls.  Each part is also a specification of its own.

\* Playback: the queue, the pipeline, the position clock and the bus.
NextPlayback ==
  \/ OnPlayQueue
  \/ OnToggle
  \/ OnStop
  \/ OnNext
  \/ OnPrev
  \/ OnJumpToTrack
  \/ OnSeek
  \/ OnTick
  \/ BusEos
  \/ BusError
  \/ DeliverEOS
  \/ PollPush

SpecPlayback == Init /\ [][NextPlayback]_vars

\* Volume: SetVolume from the host, the slider and its value-changed
\* callback, and the track loads that hand the volume to the pipeline.
NextVolume ==
  \/ OnSetVolume
  \/ SlideVolume
  \/ DeliverSetVolume
  \/ OnPlayQueue
  \/ OnToggle
  \/ OnStop
  \/ PollPush

SpecVolume == Init /\ [][NextVolume]_vars

\* Volume with the component's message loop at work: a queued SetVolume is
\* processed in the end (the loop takes messages whenever it can), and a
\* pending push is polled.
SpecVolumeLoop ==
  /\ Init
  /\ [][NextVolume]_vars
  /\ SF_vars(DeliverSetVolume)
  /\ WF_vars(PollPush)

\* Cover art: track loads that start fetches, the fetches' ends and SetArt.
NextArt ==
  \/ OnPlayArtQueue
  \/ OnNext
  \/ OnPrev
  \/ OnStop
  \/ FetchDone
  \/ DeliverSetArt
  \/ PollPush

SpecArt == Init /\ [][NextArt]_vars

\* The MPRIS session: its setup, the pushes and the polls of their futures.
NextMpris ==
  \/ OnPlayQueue
  \/ OnToggle
  \/ OnStop
  \/ OnNext
  \/ OnTick
  \/ BusEos
  \/ DeliverEOS
  \/ SessionLive
  \/ SessionFails
  \/ PollPush

SpecMpris == Init /\ [][NextMpris]_vars

\* Play and pause: the Toggle button between loads, stops, ticks and seeks,
\* in a run that remembers what the latest Toggle found.
NextToggle ==
  \/ OnPlayQueue
  \/ OnToggle
  \/ OnStop
  \/ OnTick
  \/ OnSeek
  \/ PollPush

SpecToggle == InitToggles /\ [][NextToggle]_vars

\* The bus watch against the loads: end-of-stream and error reports queued
\* while PlayQueue, Next, Prev and JumpToTrack set new sources, in a run that
\* counts the queued messages older than the source.
NextSources ==
  \/ OnPlayQueue
  \/ OnNext
  \/ OnPrev
  \/ OnJumpToTrack
  \/ BusEos
  \/ BusError
  \/ DeliverEOS
  \/ PollPush

SpecSources == InitSources /\ [][NextSources]_vars

\* The player left to itself after loads: the timer ticks, the bus reports
\* and the queued EOS messages are processed.  The pipeline reports the end
\* of (or an error on) what it plays, the component's loop takes every
\* message sent to it, and the main loop polls every spawned future.
NextUnattended ==
  \/ OnPlayQueue
  \/ OnTick
  \/ BusEos
  \/ BusError
  \/ DeliverEOS
  \/ PollPush

SpecUnattended ==
  /\ Init
  /\ [][NextUnattended]_vars
  /\ WF_vars(BusEos \/ BusError)
  /\ SF_vars(DeliverEOS)
  /\ WF_vars(PollPush)

\* Remote control: the live session's callbacks and the messages they send.
NextRemote ==
  \/ OnPlayQueue
  \/ SessionLive
  \/ RemoteCommand
  \/ DeliverCommand
  \/ PollPush

SpecRemote == Init /\ [][NextRemote]_vars

\* The waveform bars: the messages that load a track among those of
\* playback that do not, in a run that keeps the bars.
NextBars ==
  \/ OnPlayQueue
  \/ OnNext
  \/ OnPrev
  \/ OnJumpToTrack
  \/ OnToggle
  \/ OnStop
  \/ OnTick
  \/ BusEos
  \/ DeliverEOS
  \/ PollPush

SpecBars == InitBars /\ [][NextBars]_vars

\* The App's album loads: the pages' requests, the fetches' ends, and the
\* player's buttons and end-of-stream on what was loaded.
NextApp ==
  \/ PlayAlbum
  \/ AlbumLoaded
  \/ OnNext
  \/ OnStop
  \/ BusEos
  \/ DeliverEOS
  \/ PollPush

SpecApp == Init /\ [][NextApp]_vars

\* The waveform drag: the gesture's callbacks, the Seek its end sends and
\* the timer's Ticks on a loaded track.
NextDrag ==
  \/ OnPlayQueue
  \/ OnTick
  \/ DragBegin
  \/ DragUpdate
  \/ DragEnd
  \/ DeliverSeek
  \/ PollPush

SpecDrag == Init /\ [][NextDrag]_vars

\* The waveform generator alone, called on every seed.
NextWaveform == Generate

SpecWaveform == Init /\ [][NextWaveform]_vars

---------------------------------------------------------------------------
\* Properties.

IndexValid == queue_index < Len(queue)

\* C1: PlayQueue(Q, i) with Q non-empty and 0 <= i < Len(Q), processed in
\* any state, leaves current_track = Q[i], the state Playing and position 0.
C1_LoadQueuePlaysTrack ==
  (/\ last.msg.kind = "PlayQueue"
   /\ last.msg.idx < Len(last.msg.tracks))
  => /\ current_track = Some(last.msg.tracks[last.msg.idx + 1])
     /\ PlaybackState = "Playing"
     /\ position = R(0)

C1_Witness ==
  /\ last.msg = MsgPlayQueue(QueueAB, 1)
  /\ last.was.state = "Paused"
  /\ current_track = Some(TrackB)
  /\ playing
  /\ position = R(0)

\* C2: in every reachable state, a non-empty queue has
\* 0 <= queue_index < Len(queue).
C2_IndexInBounds == queue # << >> => IndexValid

\* C3: Playing or Paused implies a non-empty queue and a valid index, and an
\* empty queue implies Stopped.
C3_StateImpliesQueue ==
  /\ PlaybackState \in { "Playing", "Paused" } => (queue # << >> /\ IndexValid)
  /\ queue = << >> => PlaybackState = "Stopped"

\* C4: PlayQueue with an empty list, in any state, leaves the queue empty,
\* no current track and the state Stopped.
C4_EmptyLoadStops ==
  (last.msg.kind = "PlayQueue" /\ last.msg.tracks = << >>)
  => /\ queue = << >>
     /\ current_track = None
     /\ PlaybackState = "Stopped"

\* C5: Next at the last index and Prev at index 0 change nothing (state,
\* index, position; no command, no wrap-around); a one-track queue stays at
\* index 0 under Next.
C5_BoundaryNoOp ==
  [][ (\/ /\ last'.msg.kind = "Next"
          /\ queue # << >>
          /\ queue_index = Len(queue) - 1
       \/ /\ last'.msg.kind = "Prev"
          /\ queue_index = 0)
      => /\ UNCHANGED engine
         /\ cmds' = << >> ]_vars

C5_Witness ==
  /\ last.msg.kind = "Next"
  /\ Len(queue) = 1
  /\ last.was.index = 0
  /\ last.was.state = "Playing"
  /\ queue_index = 0
  /\ playing

\* C6: Seek(f) with duration > 0 clamps f to [0, 1]: the position becomes
\* clamp(f) * duration, the pipeline is sent to that time and the progress
\* marker becomes clamp(f).
C6_SeekClamps ==
  [][ (last'.msg.kind = "Seek" /\ RLt(R(0), duration))
      => LET c == Clamp(last'.msg.frac, R(0), R(1))
         IN  /\ position' = RMul(c, duration)
             /\ cmds' = << SeekSimple(NsFromSeconds(RMul(c, duration))) >>
             /\ waveform_progress' = c ]_vars

\* C7: Seek(f) with a duration of 0 (unknown) changes nothing and sends no
\* seek to the pipeline, whatever f.
C7_SeekUnknownDurationNoOp ==
  [][ (last'.msg.kind = "Seek" /\ ~RLt(R(0), duration))
      => /\ UNCHANGED engine
         /\ cmds' = << >> ]_vars

C7_Witness ==
  /\ last.msg = MsgSeek(Rat(1, 2))
  /\ duration = R(0)
  /\ current_track = Some(TrackC)
  /\ playing
  /\ cmds = << >>

\* C8: after SetVolume(v) with any v, the stored volume, the volume handed
\* to the pipeline and the volume reported by VolumeChanged lie in [0, 1].
\* Stated for the states in which no message sent by the slider is left to
\* process, so that no volume about to be overwritten counts against it.
C8_VolumeInUnit ==
  inbox = << >>
  => /\ InUnit(volume)
     /\ InUnit(p_volume)
     /\ \A k \in 1..Len(out) : out[k].out = "VolumeChanged" => InUnit(out[k].v)

\* C9: PlayQueue([A(120), B(90)], 0); Tick with the pipeline at 30 s;
\* Seek(0.5); EOS; EOS passes through (A, Playing, 0 of 120), position 30,
\* position 60, (B, Playing, 0 of 90), (Stopped, position 0).
C9_Scenario ==
  /\ scen = 1 => /\ current_track = Some(TrackA)
                 /\ PlaybackState = "Playing"
                 /\ position = R(0)
                 /\ duration = R(120)
  /\ scen = 2 => /\ current_track = Some(TrackA)
                 /\ PlaybackState = "Playing"
                 /\ position = R(30)
  /\ scen = 3 => /\ current_track = Some(TrackA)
                 /\ PlaybackState = "Playing"
                 /\ position = R(60)
  /\ scen = 4 => /\ current_track = Some(TrackB)
                 /\ PlaybackState = "Playing"
                 /\ position = R(0)
                 /\ duration = R(90)
  /\ scen = 5 => /\ PlaybackState = "Stopped"
                 /\ position = R(0)

C9_Witness ==
  /\ scen = 5
  /\ last.msg.kind = "EOS"
  /\ current_track = Some(TrackB)
  /\ PlaybackState = "Stopped"

\* C10: Toggle in the Stopped state with a current track loaded yields
\* Playing and sends the pipeline only the play command: no source is set,
\* and queue, index and current track stay.
C10_ToggleFromStopped ==
  [][ (/\ last'.msg.kind = "Toggle"
       /\ PlaybackState = "Stopped"
       /\ IsSome(current_track))
      => /\ PlaybackState' = "Playing"
         /\ cmds' = << SetState("Playing") >>
         /\ UNCHANGED <<queue, queue_index, current_track, p_uri>> ]_vars

C10_Witness ==
  /\ last.msg.kind = "Toggle"
  /\ last.was.state = "Stopped"
  /\ playing
  /\ p_uri = Some("urlB")
  /\ current_track = Some(TrackB)
  /\ cmds = << SetState("Playing") >>

\* C11: the art the player shows is the art fetched for the current track:
\* whenever art_pixbuf is set, a track is current and the picture is the one
\* at that track's art_url, whatever the order of track loads and fetch ends.
C11_ArtOfCurrentTrack ==
  IsSome(art_pixbuf) =>
    /\ IsSome(current_track)
    /\ Unwrap(current_track).art_url = art_pixbuf

\* C12: PlayQueue(Q, i) with i < Len(Q), processed when the latest message
\* before it was a Next or a Prev that loaded a track, leaves the queue Q,
\* the index i, the pipeline's uri Q[i].stream_url and the current track
\* Q[i]: the pipeline was reset and given the new uri in this very step.
C12_LoadQueueWins ==
  (/\ last.msg.kind = "PlayQueue"
   /\ last.was.after \in { "Next", "Prev" }
   /\ last.msg.idx < Len(last.msg.tracks))
  => /\ queue = last.msg.tracks
     /\ queue_index = last.msg.idx
     /\ p_uri = Some(last.msg.tracks[last.msg.idx + 1].stream_url)
     /\ current_track = Some(last.msg.tracks[last.msg.idx + 1])
     /\ cmds[1] = SetState("Null")
     /\ cmds[2] = SetUri(last.msg.tracks[last.msg.idx + 1].stream_url)

C12_Witness ==
  /\ last.msg = MsgPlayQueue(<<TrackC>>, 0)
  /\ last.was.after = "Next"
  /\ last.was.index = 1
  /\ queue = <<TrackC>>
  /\ queue_index = 0
  /\ p_uri = Some("urlC")
  /\ current_track = Some(TrackC)

\* C13: the bus watch does the same on an error as on end-of-stream: it
\* sends PlayerMsg::EOS, the same message in the same queue, and changes
\* nothing else; the one difference is the diagnostic an error prints.
C13_ErrorAsEos ==
  [][last'.msg.kind \in { "BusEos", "BusError" } =>
       /\ inbox' = Append(inbox, MsgOf("EOS"))
       /\ diag' = (last'.msg.kind = "BusError")
       /\ UNCHANGED <<engine, side, mpris, remote>>]_vars

C13_Witness ==
  /\ last.msg.kind = "BusError"
  /\ last.was.state = "Paused"
  /\ diag
  /\ inbox = << MsgOf("EOS") >>
  /\ queue = QueueAB

\* C14: the status a handler hands to sync_mpris is the playback state the
\* handler leaves: Playing, Paused, or Stopped after Stop and after the end
\* of the last track.
C14_StatusPushIsState ==
  [][\A k \in (Len(pushes) + 1)..Len(pushes') :
       pushes'[k].push = "status" => pushes'[k].status = PlaybackState']_vars

\* C15, as claimed: a push made while the session is not live changes
\* nothing on the bus when its future is polled.
C15_PushMadeBeforeLiveDropped ==
  [][(last'.msg.kind = "PollPush" /\ Head(pushes).at # "live")
       => remote' = remote]_vars

\* C15, amended: a push whose future is polled while the session is not live
\* is dropped, and is gone; the session going live changes nothing on the
\* bus and polls nothing; a poll leaves the engine as it is, dropped or not.
C15_PushPolledBeforeLiveDropped ==
  [][/\ (last'.msg.kind = "PollPush" /\ mpris # "live")
          => (remote' = remote /\ pushes' = Tail(pushes))
     /\ last'.msg.kind = "SessionLive"
          => (remote' = remote /\ pushes' = pushes)
     /\ last'.msg.kind \in { "PollPush", "SessionLive" }
          => UNCHANGED <<engine, art_pixbuf, fetches, inbox>>]_vars

C15_Witness ==
  /\ last.msg.kind = "SessionLive"
  /\ pushes = << >>
  /\ playing
  /\ remote.status = "Stopped"
  /\ remote.metadata = None

\* C17: every bar generate_waveform returns, for every seed, lies in
\* [0.2, 1.0].
C17_BarsInRange ==
  IsSome(wf_call) =>
    \A k \in 1..Len(Unwrap(wf_call).bars) : BarInRange(Unwrap(wf_call).bars[k])

C17_Witness ==
  /\ IsSome(wf_call)
  /\ Unwrap(wf_call).seed = << "A", "-", "e'" >>
  /\ Len(Unwrap(wf_call).bars) > 0
  /\ \E k \in 1..Len(Unwrap(wf_call).bars) :
       Unwrap(wf_call).bars[k].num # U32Max

\* C18: generate_waveform returns exactly WAVEFORM_BARS = 120 bars for
\* every seed, the empty string included.
C18_BarCount ==
  IsSome(wf_call) => Len(Unwrap(wf_call).bars) = WAVEFORM_BARS

C18_Witness ==
  /\ IsSome(wf_call)
  /\ Unwrap(wf_call).seed = << >>
  /\ Len(Unwrap(wf_call).bars) = 120

\* C19: EOS processed when queue_index + 1 < Len(queue) moves the index up by
\* one, loads the track there (the pipeline's uri is its stream_url), sets
\* the position to 0 and leaves the engine Playing, whatever the state was.
C19_EosAdvances ==
  [][(last'.msg.kind = "EOS" /\ queue_index + 1 < Len(queue)) =>
       /\ queue_index' = queue_index + 1
       /\ queue' = queue
       /\ p_uri' = Some(queue[queue_index + 2].stream_url)
       /\ current_track' = Some(queue[queue_index + 2])
       /\ position' = R(0)
       /\ p_state' = "Playing"
       /\ PlaybackState' = "Playing"]_vars

C19_Witness ==
  /\ last.msg.kind = "EOS"
  /\ last.was.state = "Stopped"
  /\ last.was.index = 0
  /\ queue = QueueAB
  /\ queue_index = 1
  /\ p_uri = Some("urlB")
  /\ playing

\* C20: EOS processed at the last index of a non-empty queue stops the
\* pipeline, leaves the state Stopped and the position 0, and leaves the
\* queue, the index and the current track as they were.
C20_EosAtEndStops ==
  [][(last'.msg.kind = "EOS" /\ queue # << >> /\ queue_index + 1 = Len(queue)) =>
       /\ cmds' = << SetState("Null") >>
       /\ p_state' = "Null"
       /\ PlaybackState' = "Stopped"
       /\ position' = R(0)
       /\ UNCHANGED <<queue, queue_index, current_track>>]_vars

C20_Witness ==
  /\ last.msg.kind = "EOS"
  /\ last.was.state = "Playing"
  /\ last.was.index = 1
  /\ queue = QueueAB
  /\ queue_index = 1
  /\ current_track = Some(TrackB)
  /\ PlaybackState = "Stopped"
  /\ position = R(0)

\* C21: a Tick processed while playing that leaves a known duration (> 0)
\* and a position at or past it synthesizes an end-of-stream: an EOS message
\* is sent, or the step itself moves to the next track or stops.
C21_TickSynthesizesEos ==
  [][(/\ last'.msg.kind = "Tick"
      /\ playing
      /\ RLt(R(0), duration')
      /\ RLeq(duration', position'))
     => \/ /\ Len(inbox') = Len(inbox) + 1
           /\ inbox'[Len(inbox')].kind = "EOS"
        \/ queue_index' = queue_index + 1
        \/ ~playing']_vars

\* The track at index i of the queue has just been loaded: what
\* play_current leaves when the index is i and the queue is as it was.
LoadedAt(i) ==
  /\ queue' = queue
  /\ queue_index' = i
  /\ current_track' = Some(queue[i + 1])
  /\ p_uri' = Some(queue[i + 1].stream_url)
  /\ position' = R(0)
  /\ duration' = UnwrapOr(queue[i + 1].duration, R(0))
  /\ p_state' = "Playing"
  /\ PlaybackState' = "Playing"
  /\ cmds' = << SetState("Null"), SetUri(queue[i + 1].stream_url),
                SetVolumeProp(volume), SetState("Playing") >>
  /\ UNCHANGED <<volume, scale_value, waveform_dragging>>

\* C22: Next with queue_index + 1 < Len(queue) loads the track at
\* queue_index + 1, and Prev with queue_index > 0 the track at
\* queue_index - 1: the index moves by one, the uri is the new track's
\* stream_url, the position is 0, the duration the track's declared one (0
\* when undeclared), the queue is unchanged and the state is Playing.
C22_NextPrevLoad ==
  [][/\ (last'.msg.kind = "Next" /\ queue_index + 1 < Len(queue))
          => LoadedAt(queue_index + 1)
     /\ (last'.msg.kind = "Prev" /\ queue_index > 0)
          => (queue_index' = queue_index - 1
              /\ queue_index' < Len(queue)
              /\ LoadedAt(queue_index - 1))]_vars


\* C24: Stop, in whatever state it is processed, sets the pipeline to Null,
\* leaves the engine Stopped at position 0 and keeps the queue, the index,
\* the current track and the volume; processed in a state a Stop has left,
\* it changes nothing of the engine (Stop is idempotent).
C24_StopFrame ==
  [][last'.msg.kind = "Stop"
       => /\ cmds' = << SetState("Null") >>
          /\ p_state' = "Null"
          /\ PlaybackState' = "Stopped"
          /\ position' = R(0)
          /\ UNCHANGED <<queue, queue_index, current_track, volume>>
          /\ (p_state = "Null" /\ ~playing /\ position = R(0))
               => UNCHANGED engine]_vars

\* A Stop has been processed by a stopped player that holds a track.
C24_Witness ==
  /\ last.msg.kind = "Stop"
  /\ last.was.state = "Stopped"
  /\ IsSome(current_track)
  /\ queue # << >>

\* The whole engine after play_current has loaded the track at index i of
\* the queue the step found.
EngineLoadedAt(i) ==
  /\ LoadedAt(i)
  /\ playing' = TRUE
  /\ p_volume' = volume
  /\ waveform_progress' = R(0)

\* C25: JumpToTrack(idx) with idx < length leaves the engine as
\* PlayQueue(current queue, idx) leaves it, both being the load of the track
\* at idx with the queue kept; JumpToTrack(idx) with idx >= length changes
\* nothing and commands nothing.
C25_JumpIsLoadQueue ==
  [][/\ (last'.msg.kind = "JumpToTrack" /\ last'.msg.idx < Len(queue))
          => EngineLoadedAt(last'.msg.idx)
     /\ (/\ last'.msg.kind = "PlayQueue"
         /\ last'.msg.tracks = queue
         /\ last'.msg.idx < Len(queue))
          => EngineLoadedAt(last'.msg.idx)
     /\ (last'.msg.kind = "JumpToTrack" /\ last'.msg.idx >= Len(queue))
          => (UNCHANGED <<engine, side>> /\ cmds' = << >>)]_vars

\* A jump to another index of the queue has been processed.
C25_Witness ==
  /\ last.msg.kind = "JumpToTrack"
  /\ last.msg.idx < Len(queue)
  /\ last.msg.idx # last.was.index
  /\ queue_index = last.msg.idx
  /\ cmds # << >>

\* C26: PlayQueue(tracks, idx) with tracks non-empty and idx >= length either
\* changes nothing of the queue, index, track and playback state, or leaves
\* an index inside the new queue with the current track the one at it.
C26_StartIndexChecked ==
  [][(/\ last'.msg.kind = "PlayQueue"
      /\ last'.msg.tracks # << >>
      /\ last'.msg.idx >= Len(last'.msg.tracks))
       => \/ UNCHANGED <<queue, queue_index, current_track, playing, p_state,
                        p_uri, position, duration>>
          \/ /\ queue_index' < Len(queue')
             /\ current_track' = Some(queue'[queue_index' + 1])]_vars

\* C30: a Tick processed while not playing changes nothing (engine, pushes,
\* commands); a Tick processed while playing changes, of the engine, only
\* the position, the duration and the progress marker.
C30_TickFrame ==
  [][last'.msg.kind = "Tick"
       => /\ cmds' = << >>
          /\ UNCHANGED <<queue, queue_index, current_track, playing, volume,
                         waveform_dragging, scale_value, p_state, p_uri,
                         p_volume, art_pixbuf, fetches>>
          /\ ~playing => UNCHANGED <<engine, side>>]_vars

\* A Tick has been processed by a paused player whose position is not 0.
C30_Witness ==
  /\ last.msg.kind = "Tick"
  /\ last.was.state = "Paused"
  /\ position # R(0)
  /\ pushes = << >>


\* C23: a Toggle processed in the Playing state pauses the pipeline and
\* leaves the engine Paused; processed in the Paused state it sets the
\* pipeline playing and leaves the engine Playing; either way the queue, the
\* index, the current track, the position and the duration stay.  A Toggle
\* that follows a Toggle, no other message between them, leaves the playback
\* state the first one found.
C23_ToggleInvolution ==
  [][last'.msg.kind = "Toggle"
       => /\ PlaybackState = "Playing"
               => (PlaybackState' = "Paused" /\ cmds' = << SetState("Paused") >>)
          /\ PlaybackState = "Paused"
               => (PlaybackState' = "Playing" /\ cmds' = << SetState("Playing") >>)
          /\ PlaybackState \in { "Playing", "Paused" }
               => UNCHANGED <<queue, queue_index, current_track, position,
                              duration>>
          /\ After = "TogglePlaying" => PlaybackState' = "Playing"
          /\ After = "TogglePaused" => PlaybackState' = "Paused"]_vars

\* The second of two Toggles has been processed, the first having found the
\* engine playing past the start of a track.
C23_Witness ==
  /\ last.msg.kind = "Toggle"
  /\ last.was.after = "TogglePlaying"
  /\ last.was.state = "Paused"
  /\ PlaybackState = "Playing"
  /\ position # R(0)


\* C28: an EOS message sent (for an end-of-stream or an error) before the
\* pipeline's current source was set leaves the index and the current track
\* alone when it is processed: only an EOS of the current source advances.
C28_StaleEosIgnored ==
  [][(last'.msg.kind = "EOS" /\ stale > 0)
       => UNCHANGED <<queue_index, current_track, p_uri>>]_vars


\* The messages a user, the host or a remote controller sends.
CommandKinds == { "PlayQueue", "Toggle", "Stop", "Next", "Prev", "Seek",
                  "SetVolume", "JumpToTrack" }

\* The engine is stopped at the last index of its queue, at position 0.
StoppedAtEnd ==
  /\ PlaybackState = "Stopped"
  /\ queue_index = Len(queue) - 1
  /\ position = R(0)

\* C27: a player playing a non-empty queue whose latest event was no command
\* comes to be stopped at the last index with position 0, unless a command
\* arrives first.
C27_PlaysToEnd ==
  (playing /\ queue # << >> /\ last.msg.kind \notin CommandKinds)
    ~> (StoppedAtEnd \/ last.msg.kind \in CommandKinds)


\* C29: a method called on the live session sends exactly one message for
\* play_pause (Toggle), next (Next), previous (Prev) and stop (Stop), the
\* very value the matching button sends, and nothing for any other method,
\* so none seeks; the call itself changes nothing of the engine.  A queued
\* command is processed as the value it is.
C29_RemoteIsLocal ==
  [][/\ last'.msg.kind \in RemoteCommands
          => /\ UNCHANGED <<engine, side>>
             /\ cmds' = << >>
             /\ inbox' = inbox \o
                  (IF last'.msg.kind = "play_pause" THEN << [kind |-> "Toggle"] >>
                   ELSE IF last'.msg.kind = "next" THEN << [kind |-> "Next"] >>
                   ELSE IF last'.msg.kind = "previous" THEN << [kind |-> "Prev"] >>
                   ELSE IF last'.msg.kind = "stop" THEN << [kind |-> "Stop"] >>
                   ELSE << >>)
     /\ (/\ last'.msg.kind \in { "Toggle", "Next", "Prev", "Stop" }
         /\ inbox # << >>
         /\ inbox' = Tail(inbox))
          => last'.msg = Head(inbox)]_vars

\* A Toggle sent by the session's play_pause callback has been processed by
\* a playing player, with a Stop sent by its stop callback queued behind.
C29_Witness ==
  /\ last.msg = [kind |-> "Toggle"]
  /\ last.was.state = "Playing"
  /\ PlaybackState = "Paused"
  /\ mpris = "live"
  /\ inbox = << [kind |-> "Stop"] >>


\* C31: a track load leaves the duration the track declares, 0 when it
\* declares none; afterwards only a Tick whose duration query is answered
\* changes it, to the answer in whole seconds; a Tick whose duration query
\* is not answered keeps the duration, and one whose position query is not
\* answered keeps the position.
C31_DurationFallback ==
  [][/\ SourceSet(cmds')
          => duration' = UnwrapOr(Unwrap(current_track').duration, R(0))
     /\ (last'.msg.kind = "Tick" /\ last'.msg.dur = None)
          => duration' = duration
     /\ (last'.msg.kind = "Tick" /\ playing /\ last'.msg.dur # None)
          => duration' = R(Seconds(Unwrap(last'.msg.dur)))
     /\ (last'.msg.kind = "Tick" /\ last'.msg.pos = None)
          => position' = position
     /\ duration' # duration
          => \/ SourceSet(cmds')
             \/ last'.msg.kind = "Tick" /\ last'.msg.dur # None]_vars

\* A Tick whose duration query was not answered has been processed while
\* track A played: the position moved and the duration is the declared one.
C31_Witness ==
  /\ last.msg.kind = "Tick"
  /\ last.msg.dur = None
  /\ last.was.state = "Playing"
  /\ current_track = Some(TrackA)
  /\ duration = R(120)
  /\ position = R(30)

\* C32: the waveform progress marker is in [0, 1] in every state.
C32_ProgressInUnit == InUnit(waveform_progress)


\* C35: whenever there is a current track, it is the queue's entry at the
\* index and the pipeline's uri is its stream_url.
C35_CurrentIsQueueEntry ==
  IsSome(current_track)
    => /\ queue_index < Len(queue)
       /\ current_track = Some(queue[queue_index + 1])
       /\ p_uri = Some(queue[queue_index + 1].stream_url)


\* generate_waveform on the seed "<title>-<artist>" of each track.
SeedBars ==
  [t \in ModelTracks |-> generate_waveform(<< t.title, "-", t.artist >>)]

C36_TickKeepsDraggedMarker ==
  [][(/\ last'.msg.kind = "Tick"
      /\ \/ waveform_dragging
         \/ \E k \in DOMAIN inbox : inbox[k].kind = "Seek")
       => waveform_progress' = waveform_progress]_vars


\* No SetVolume is queued: the loop between the engine and the slider is
\* at rest.
VolumeLoopAtRest == \A k \in DOMAIN inbox : inbox[k].kind # "SetVolume"

\* C38: the loop between the engine and the slider quiesces: unless the host
\* and the user keep sending messages for ever, the queue is free of
\* SetVolume again and again (the follow-ups of the SetVolume messages
\* already sent run out).
C38_LoopQuiesces ==
  \/ []<>VolumeLoopAtRest
  \/ []<><<OnSetVolume \/ SlideVolume \/ OnPlayQueue \/ OnToggle \/ OnStop>>_vars

\* Once a SetVolume has been processed and the loop is at rest, the stored
\* volume, the pipeline's volume, the slider's value and the value of the
\* VolumeChanged output are all equal.
QuiescentVolumesAgree ==
  (last.msg.kind = "SetVolume" /\ VolumeLoopAtRest)
    => /\ p_volume = volume
       /\ scale_value = volume
       /\ out = << VolumeChanged(volume) >>


\* C37: once no album fetch is in flight and the fetch of the most recently
\* requested album has yielded playable tracks, the player's queue is that
\* album's and the current album is that album, whatever order the fetches
\* ended in.
C37_LatestRequestWins ==
  (/\ album_loads = << >>
   /\ IsSome(requested)
   /\ Unwrap(requested).outcome = "loaded")
    => /\ current_album = Some(AlbumDetails(Unwrap(requested).url))
       /\ queue = Playable(AlbumTracks[Unwrap(requested).url])

\* C39: a PlayQueue the App sends carries a non-empty list of tracks, each
\* with a non-empty stream_url; an album load that ends without a playable
\* track sends none and leaves the player as it was.
C39_OnlyPlayableQueues ==
  [][/\ last'.msg.kind = "PlayQueue"
          => /\ last'.msg.tracks # << >>
             /\ \A k \in DOMAIN last'.msg.tracks :
                  last'.msg.tracks[k].stream_url # ""
     /\ last'.msg.kind = "AlbumLoaded"
          => UNCHANGED <<engine, side, inbox>>]_vars

====
